---------------------------- MODULE Spec2Model ----------------------------
(***************************************************************************)
(* The BPF event records of s2n-quic-core                                  *)
(* (event/generated_s2n_quic_bpf_events.h): four C structs whose members   *)
(* are all uint64_t.  The model keeps the declarations as data, computes   *)
(* the C layout (offsets, sizes) from them, and places records in a byte   *)
(* addressed memory.  Emitters construct a record member by member, hand   *)
(* it to the tracing sink, which reads the raw bytes back through the      *)
(* layout, and drop it.                                                    *)
(*                                                                         *)
(* A 64-bit value is a tuple of 8 bytes, least significant first: TLC's    *)
(* integers are 32 bits wide, so 0 .. 2^64-1 is kept digit by digit.       *)
(***************************************************************************)
EXTENDS Integers, Sequences, FiniteSets

VARIABLES mem, pc, rec, probe

vars == <<mem, pc, rec, probe>>

\* Number of emitters that may hold a record at the same time.
NumEmitters == 2

Emitters == 1..NumEmitters

-----------------------------------------------------------------------------
(* The declarations *)

Member(t, n) == [type |-> t, name |-> n]

\* mutant: smoothed_rtt and latest_rtt declared in the other order
RecoveryMetricsReordered ==
  << Member("uint64_t", "path"),
     Member("uint64_t", "min_rtt"),
     Member("uint64_t", "latest_rtt"),
     Member("uint64_t", "smoothed_rtt"),
     Member("uint64_t", "rtt_variance"),
     Member("uint64_t", "max_ack_delay"),
     Member("uint64_t", "pto_count"),
     Member("uint64_t", "congestion_window"),
     Member("uint64_t", "bytes_in_flight") >>

RecoveryMetrics ==
  << Member("uint64_t", "path"),
     Member("uint64_t", "min_rtt"),
     Member("uint64_t", "smoothed_rtt"),
     Member("uint64_t", "latest_rtt"),
     Member("uint64_t", "rtt_variance"),
     Member("uint64_t", "max_ack_delay"),
     Member("uint64_t", "pto_count"),
     Member("uint64_t", "congestion_window"),
     Member("uint64_t", "bytes_in_flight") >>

RxStreamProgress == << Member("uint64_t", "bytes") >>

TxStreamProgress == << Member("uint64_t", "bytes") >>

\* mutant: the datagram length declared 32 bits wide
EndpointDatagramReceived32 == << Member("uint32_t", "len") >>

EndpointDatagramReceived == << Member("uint64_t", "len") >>

Kinds ==
  {"RecoveryMetrics", "RxStreamProgress", "TxStreamProgress",
   "EndpointDatagramReceived"}

Struct(kind) ==
  CASE kind = "RecoveryMetrics" -> RecoveryMetrics
    [] kind = "RxStreamProgress" -> RxStreamProgress
    [] kind = "TxStreamProgress" -> TxStreamProgress
    [] kind = "EndpointDatagramReceived" -> EndpointDatagramReceived

NumFields(kind) == Len(Struct(kind))

-----------------------------------------------------------------------------
(* The member types *)

\* mutant: a 64-bit member stored in 4 bytes
WidthTruncated(t) == 4

\* sizeof of a member type, in bytes
Width(t) ==
  CASE t = "uint64_t" -> 8
    [] t = "int64_t" -> 8
    [] t = "uint32_t" -> 4

\* mutant: every member aligned to 16 bytes
AlignOfSixteen(t) == 16

\* natural alignment of a member type
AlignOf(t) == Width(t)

\* mutant: the members read as signed integers
SignedAlways(t) == TRUE

Signed(t) ==
  CASE t = "uint64_t" -> FALSE
    [] t = "int64_t" -> TRUE
    [] t = "uint32_t" -> FALSE

-----------------------------------------------------------------------------
(* The C layout of a struct: each member at the next offset that its       *)
(* alignment allows, the struct padded to its strictest member alignment.  *)

AlignUp(n, a) == ((n + a - 1) \div a) * a

\* mutant: every member at offset 0, as the members of a union
OffsetOfUnion(kind, k) == 0

RECURSIVE OffsetOf(_, _)
OffsetOf(kind, k) ==
  IF k = 1 THEN 0
  ELSE AlignUp(OffsetOf(kind, k - 1) + Width(Struct(kind)[k - 1].type),
               AlignOf(Struct(kind)[k].type))

StructAlign(kind) ==
  LET as == {AlignOf(Struct(kind)[k].type) : k \in 1..NumFields(kind)}
  IN  CHOOSE a \in as : \A b \in as : b <= a

\* mutant: the size of the first member taken for the size of the struct
SizeOfFirstMember(kind) == Width(Struct(kind)[1].type)

\* mutant: the last member left out of the size
SizeOfNoTail(kind) == OffsetOf(kind, NumFields(kind))

SizeOf(kind) ==
  AlignUp(OffsetOf(kind, NumFields(kind))
            + Width(Struct(kind)[NumFields(kind)].type),
          StructAlign(kind))

-----------------------------------------------------------------------------
(* 64-bit values *)

Byte == 0..255

\* The low w bytes of the two's complement representation of the integer n,
\* least significant first: the conversion of a C integer to a w byte type.
RECURSIVE ToBytes(_, _)
ToBytes(n, w) ==
  IF w = 0 THEN <<>> ELSE <<n % 256>> \o ToBytes(n \div 256, w - 1)

U64(n) == ToBytes(n, 8)

\* v * 2^32, modulo 2^64
Shl32(v) == <<0, 0, 0, 0, v[1], v[2], v[3], v[4]>>

\* UINT64_MAX: the conversion of -1
Max64 == U64(-1)

\* The values the emitters store in single member records.
Values == {Max64, Shl32(U64(1)), U64(1200)}

\* The member values of the RecoveryMetrics events the emitters construct:
\* the record of the specification's example, and one of boundary values.
ExampleMetrics ==
  [path |-> U64(1), min_rtt |-> U64(2000), smoothed_rtt |-> U64(2100),
   latest_rtt |-> U64(2050), rtt_variance |-> U64(50),
   max_ack_delay |-> U64(25000), pto_count |-> U64(0),
   congestion_window |-> U64(65536), bytes_in_flight |-> U64(1200)]

BoundaryMetrics ==
  [path |-> Max64, min_rtt |-> U64(0), smoothed_rtt |-> Shl32(U64(1)),
   latest_rtt |-> Shl32(U64(-1)), rtt_variance |-> <<0, 0, 0, 0, 0, 0, 0, 128>>,
   max_ack_delay |-> <<255, 255, 255, 255, 0, 0, 0, 0>>, pto_count |-> U64(-2),
   congestion_window |-> <<1, 0, 0, 0, 0, 0, 0, 1>>,
   bytes_in_flight |-> <<255, 255, 255, 255, 255, 255, 255, 127>>]

\* The member values an event of a kind may carry.
Arguments(kind) ==
  IF kind = "RecoveryMetrics" THEN {ExampleMetrics, BoundaryMetrics}
  ELSE {[n \in {Struct(kind)[1].name} |-> v] : v \in Values}

-----------------------------------------------------------------------------
(* Memory: a function from the addresses that hold a value to bytes. *)

\* What a read of a byte that was never written yields.
Indeterminate == -1

ReadByte(m, a) == IF a \in DOMAIN m THEN m[a] ELSE Indeterminate

\* The addresses of member k of the record of a kind at base.
MemberRange(base, kind, k) ==
  LET off == base + OffsetOf(kind, k)
  IN  off .. off + Width(Struct(kind)[k].type) - 1

\* mutant: the members kept in storage that all records share
StoreFieldShared(m, base, kind, k, v) ==
  LET off == OffsetOf(kind, k)
      own == MemberRange(0, kind, k)
  IN  [a \in DOMAIN m \cup own |-> IF a \in own THEN v[a - off + 1] ELSE m[a]]

\* r.member = v: v converted to the member's type and written at its offset.
StoreField(m, base, kind, k, v) ==
  LET off == base + OffsetOf(kind, k)
      own == MemberRange(base, kind, k)
  IN  [a \in DOMAIN m \cup own |-> IF a \in own THEN v[a - off + 1] ELSE m[a]]

\* The value of r.member as a 64-bit pattern: the member's bytes, extended
\* by its sign for a signed type and by zero for an unsigned one.
LoadField(m, base, kind, k) ==
  LET t == Struct(kind)[k].type
      w == Width(t)
      off == base + OffsetOf(kind, k)
      top == ReadByte(m, off + w - 1)
  IN  [i \in 1..8 |->
         IF i <= w THEN ReadByte(m, off + i - 1)
         ELSE IF Signed(t) /\ top >= 128 THEN 255 ELSE 0]

\* Whether the value read from member k is below zero.
Negative(m, base, kind, k) ==
  /\ Signed(Struct(kind)[k].type)
  /\ LoadField(m, base, kind, k)[8] >= 128

\* The members of a record read back in declaration order.
ReadRecord(m, base, kind) ==
  [k \in 1..NumFields(kind) |-> LoadField(m, base, kind, k)]

\* A record constructed in one go: members 1 .. k stored in order.
RECURSIVE Construct(_, _, _, _, _)
Construct(m, base, kind, args, k) ==
  IF k = 0 THEN m
  ELSE StoreField(Construct(m, base, kind, args, k - 1), base, kind, k,
                  args[Struct(kind)[k].name])

-----------------------------------------------------------------------------
(* The emitters and the tracing sink *)

NoRecord == [kind |-> "none"]

Live == {e \in Emitters : rec[e] # NoRecord}

\* The addresses the record of emitter e occupies.
Range(e) == rec[e].base .. rec[e].base + SizeOf(rec[e].kind) - 1

\* Each emitter builds its records in a slot of its own, and a slot has the
\* size of the largest record.
SlotBytes ==
  LET sizes == {SizeOf(kind) : kind \in Kinds}
  IN  CHOOSE s \in sizes : \A t \in sizes : t <= s

Alloc(e) == (e - 1) * SlotBytes

Init ==
  /\ mem = <<>>
  /\ pc = [e \in Emitters |-> "idle"]
  /\ rec = [e \in Emitters |-> NoRecord]
  /\ probe = [e \in Emitters |-> <<>>]

\* An event of a kind occurs at emitter e: storage for its record is set up.
Begin(e, kind, args) ==
  /\ pc[e] = "idle"
  /\ pc' = [pc EXCEPT ![e] = "building"]
  /\ rec' = [rec EXCEPT ![e] =
               [kind |-> kind, base |-> Alloc(e), args |-> args, n |-> 0]]
  /\ UNCHANGED <<mem, probe>>

\* The emitter stores the next member of its record.
WriteField(e) ==
  /\ pc[e] = "building"
  /\ LET r == rec[e]
         k == r.n + 1
     IN  /\ mem' = StoreField(mem, r.base, r.kind, k,
                              r.args[Struct(r.kind)[k].name])
         /\ rec' = [rec EXCEPT ![e].n = k]
         /\ pc' = [pc EXCEPT ![e] =
                     IF k = NumFields(r.kind) THEN "built" ELSE "building"]
  /\ UNCHANGED probe

\* The record is handed to the tracing sink, which reads its members from
\* the raw memory through the layout.
Emit(e) ==
  /\ pc[e] = "built"
  /\ pc' = [pc EXCEPT ![e] = "handed"]
  /\ probe' = [probe EXCEPT ![e] = ReadRecord(mem, rec[e].base, rec[e].kind)]
  /\ UNCHANGED <<mem, rec>>

\* The probe returns: the record's lifetime ends and nothing of it is kept.
Drop(e) ==
  /\ pc[e] = "handed"
  /\ pc' = [pc EXCEPT ![e] = "idle"]
  /\ rec' = [rec EXCEPT ![e] = NoRecord]
  /\ probe' = [probe EXCEPT ![e] = <<>>]
  /\ mem' = [a \in DOMAIN mem \ Range(e) |-> mem[a]]

Next ==
  \E e \in Emitters :
    \/ \E kind \in Kinds : \E args \in Arguments(kind) : Begin(e, kind, args)
    \/ WriteField(e)
    \/ Emit(e)
    \/ Drop(e)

Spec == Init /\ [][Next]_vars

-----------------------------------------------------------------------------
(* What the claims are stated in *)

\* The k-th 64-bit word of the raw memory at base, as the external consumer
\* reads it: bytes 8*(k-1) .. 8*k-1.
RawWord(m, base, k) ==
  [i \in 1..8 |-> ReadByte(m, base + 8 * (k - 1) + i - 1)]

\* The member names of RecoveryMetrics in the order of the data model's table.
TableRecoveryMetrics ==
  <<"path", "min_rtt", "smoothed_rtt", "latest_rtt", "rtt_variance",
    "max_ack_delay", "pto_count", "congestion_window", "bytes_in_flight">>

\* The emitter has stored every member of its record.
Constructed(e) == pc[e] \in {"built", "handed"}

\* The values the emitter gave the members, in declaration order.
Given(e) ==
  [k \in 1..NumFields(rec[e].kind) |-> rec[e].args[Struct(rec[e].kind)[k].name]]

\* The members stored so far, read back through the layout from memory m.
View(m, e) ==
  [k \in 1..rec[e].n |-> LoadField(m, rec[e].base, rec[e].kind, k)]

\* The addresses whose byte differs between this state and the next.
Changed ==
  {a \in DOMAIN mem \cup DOMAIN mem' : ReadByte(mem, a) # ReadByte(mem', a)}

\* C1: RecoveryMetrics has exactly nine members, each a uint64_t, declared in
\* the order path, min_rtt, smoothed_rtt, latest_rtt, rtt_variance,
\* max_ack_delay, pto_count, congestion_window, bytes_in_flight; so the k-th
\* 64-bit word of every constructed RecoveryMetrics record holds the value
\* given to the k-th name of the table.
C1_RecoveryMetricsFields ==
  /\ Len(RecoveryMetrics) = 9
  /\ \A k \in 1..9 :
       RecoveryMetrics[k] = Member("uint64_t", TableRecoveryMetrics[k])
  /\ \A e \in Emitters :
       Constructed(e) /\ rec[e].kind = "RecoveryMetrics" =>
         \A k \in 1..9 :
           RawWord(mem, rec[e].base, k) = rec[e].args[TableRecoveryMetrics[k]]

\* A RecoveryMetrics record with nine pairwise different values is constructed.
C1_Witness ==
  \E e \in Emitters :
    /\ Constructed(e)
    /\ rec[e].kind = "RecoveryMetrics"
    /\ rec[e].args = BoundaryMetrics
    /\ \A j, k \in 1..9 :
         j # k => RawWord(mem, rec[e].base, j) # RawWord(mem, rec[e].base, k)

\* C2: RxStreamProgress, TxStreamProgress and EndpointDatagramReceived each
\* have exactly one member, a uint64_t, named bytes, bytes and len; a
\* constructed record of these kinds is that one 64-bit word and nothing else.
C2_SingleFieldRecords ==
  /\ RxStreamProgress = <<Member("uint64_t", "bytes")>>
  /\ TxStreamProgress = <<Member("uint64_t", "bytes")>>
  /\ EndpointDatagramReceived = <<Member("uint64_t", "len")>>
  /\ \A e \in Emitters :
       Constructed(e) /\ rec[e].kind # "RecoveryMetrics" =>
         /\ NumFields(rec[e].kind) = 1
         /\ Range(e) = rec[e].base .. rec[e].base + 7
         /\ Range(e) \subseteq DOMAIN mem
         /\ \A a \in DOMAIN mem :
              a \in Alloc(e) .. Alloc(e) + SlotBytes - 1 => a \in Range(e)
         /\ RawWord(mem, rec[e].base, 1)
              = rec[e].args[IF rec[e].kind = "EndpointDatagramReceived"
                            THEN "len" ELSE "bytes"]

\* A TxStreamProgress and an EndpointDatagramReceived record are constructed,
\* with values that need more than 32 bits.
C2_Witness ==
  \E e, f \in Emitters :
    /\ Constructed(e)
    /\ rec[e].kind = "TxStreamProgress"
    /\ RawWord(mem, rec[e].base, 1) = Shl32(U64(1))
    /\ Constructed(f)
    /\ rec[f].kind = "EndpointDatagramReceived"
    /\ RawWord(mem, rec[f].base, 1) = Max64

\* C3: round trip: the members of every constructed record, read back
\* through the layout in declaration order, are the values the record was
\* constructed with, and so are the values the sink read at the hand-off; the
\* RecoveryMetrics of the example reads back 1, 2000, 2100, 2050, 50, 25000,
\* 0, 65536, 1200.
C3_RoundTrip ==
  \A e \in Emitters :
    Constructed(e) =>
      /\ ReadRecord(mem, rec[e].base, rec[e].kind) = Given(e)
      /\ pc[e] = "handed" => probe[e] = Given(e)
      /\ rec[e].args = ExampleMetrics =>
           ReadRecord(mem, rec[e].base, rec[e].kind)
             = <<U64(1), U64(2000), U64(2100), U64(2050), U64(50), U64(25000),
                 U64(0), U64(65536), U64(1200)>>

\* The example record has been handed to the sink while a record of another
\* kind is constructed.
C3_Witness ==
  \E e, f \in Emitters :
    /\ pc[e] = "handed"
    /\ rec[e].args = ExampleMetrics
    /\ Len(probe[e]) = 9
    /\ probe[e][8] = <<0, 0, 1, 0, 0, 0, 0, 0>>
    /\ Constructed(f)
    /\ rec[f].kind = "EndpointDatagramReceived"

\* C4: a member holds any value of 0 .. 2^64-1 without truncation: every
\* member stored so far, of records under construction too, reads back as all
\* eight bytes of the value stored, 0 and 2^64-1 included.
C4_FullRange ==
  \A e \in Live :
    \A k \in 1..rec[e].n :
      LET v == rec[e].args[Struct(rec[e].kind)[k].name]
          r == LoadField(mem, rec[e].base, rec[e].kind, k)
      IN  /\ \A i \in 1..8 : r[i] \in Byte /\ r[i] = v[i]
          /\ v = Max64 => r = <<255, 255, 255, 255, 255, 255, 255, 255>>
          /\ v = U64(0) => r = <<0, 0, 0, 0, 0, 0, 0, 0>>

\* A record under construction holds 2^64-1 in one member and 0 in the next,
\* and another record holds 2^32.
C4_Witness ==
  \E e, f \in Emitters :
    /\ pc[e] = "building"
    /\ rec[e].n = 2
    /\ LoadField(mem, rec[e].base, rec[e].kind, 1) = Max64
    /\ LoadField(mem, rec[e].base, rec[e].kind, 2) = U64(0)
    /\ pc[f] = "built"
    /\ LoadField(mem, rec[f].base, rec[f].kind, 1) = <<0, 0, 0, 0, 1, 0, 0, 0>>

Lifecycle(e) ==
  \* created when the event occurs, with nothing stored yet
  /\ pc[e] = "idle" =>
       /\ rec[e] = NoRecord /\ probe[e] = <<>>
       /\ pc'[e] \in {"idle", "building"}
       /\ pc'[e] = "building" => rec'[e].n = 0 /\ probe'[e] = <<>>
  /\ pc[e] = "building" =>
       /\ pc'[e] \in {"building", "built"}
       /\ probe'[e] = <<>>
       /\ pc'[e] = "built" => rec'[e].n = NumFields(rec'[e].kind)
  \* handed to the sink only when constructed, and in full
  /\ pc[e] = "built" =>
       /\ rec[e].n = NumFields(rec[e].kind)
       /\ pc'[e] \in {"built", "handed"}
       /\ pc'[e] = "handed" =>
            /\ rec'[e] = rec[e]
            /\ probe'[e] = Given(e)
  \* after the hand-off: not mutated, and then nothing of it is left
  /\ pc[e] = "handed" =>
       /\ pc'[e] \in {"handed", "idle"}
       /\ pc'[e] = "handed" =>
            /\ rec'[e] = rec[e] /\ probe'[e] = probe[e]
            /\ \A a \in Range(e) : ReadByte(mem', a) = ReadByte(mem, a)
       /\ pc'[e] = "idle" =>
            /\ rec'[e] = NoRecord /\ probe'[e] = <<>>
            /\ \A a \in Alloc(e) .. Alloc(e) + SlotBytes - 1 :
                 a \notin DOMAIN mem'

C7_NonNegative ==
  \A e \in Live :
    \A k \in 1..rec[e].n : ~Negative(mem, rec[e].base, rec[e].kind, k)

\* A member holds the conversion of -1, all bits set.
C7_Witness ==
  \E e \in Live :
    \E k \in 1..rec[e].n :
      /\ rec[e].args[Struct(rec[e].kind)[k].name] = U64(-1)
      /\ LoadField(mem, rec[e].base, rec[e].kind, k)[8] = 255

\* The memory after emitter e, then emitter f, each store the members they
\* have stored so far, one record after the other.
OneAfterTheOther(e, f) ==
  Construct(Construct(<<>>, rec[e].base, rec[e].kind, rec[e].args, rec[e].n),
            rec[f].base, rec[f].kind, rec[f].args, rec[f].n)

\* C8: the records share no state: a step that is not a step of emitter e
\* leaves every member of e's record unchanged, and however the stores of two
\* emitters interleave, both records are what the two constructions yield
\* one after the other, in either order.
C8_Independent ==
  /\ [][\A e \in Emitters :
          rec[e] # NoRecord /\ rec'[e] = rec[e] => View(mem', e) = View(mem, e)]_vars
  /\ [](\A e, f \in Live :
          e # f =>
            /\ View(mem, e) = View(OneAfterTheOther(e, f), e)
            /\ View(mem, e) = View(OneAfterTheOther(f, e), e))

\* Two emitters are both in the middle of constructing a RecoveryMetrics
\* record, their stores interleaved.
C8_Witness ==
  \E e, f \in Emitters :
    /\ e # f
    /\ pc[e] = "building" /\ rec[e].kind = "RecoveryMetrics" /\ rec[e].n = 4
    /\ pc[f] = "building" /\ rec[f].kind = "RecoveryMetrics" /\ rec[f].n = 5

\* C9: the layout has no padding: the k-th member of each record is at bytes
\* 8*(k-1) .. 8*k-1, RecoveryMetrics is 72 bytes with bytes_in_flight at
\* offset 64, the other three records are 8 bytes; and the store of a member
\* changes bytes of that member only.
C9_NoPadding ==
  /\ [](/\ \A kind \in Kinds :
             \A k \in 1..NumFields(kind) :
               MemberRange(0, kind, k) = 8 * (k - 1) .. 8 * k - 1
        /\ SizeOf("RecoveryMetrics") = 72
        /\ OffsetOf("RecoveryMetrics", 9) = 64
        /\ RecoveryMetrics[9].name = "bytes_in_flight"
        /\ \A kind \in Kinds \ {"RecoveryMetrics"} : SizeOf(kind) = 8
        /\ \A e \in Emitters :
             Constructed(e) =>
               Range(e) = {a \in DOMAIN mem :
                             a \in Alloc(e) .. Alloc(e) + SlotBytes - 1})
  /\ [][\A e \in Emitters :
          pc[e] = "building" /\ rec'[e] # rec[e] =>
            LET k == rec[e].n + 1
            IN  Changed \subseteq
                  rec[e].base + 8 * (k - 1) .. rec[e].base + 8 * k - 1]_vars

\* A RecoveryMetrics record is constructed: 72 bytes, the last member in the
\* bytes from offset 64.
C9_Witness ==
  \E e \in Emitters :
    /\ pc[e] = "built"
    /\ rec[e].kind = "RecoveryMetrics"
    /\ Cardinality({a \in DOMAIN mem : a \in Range(e)}) = 72
    /\ RawWord(mem, rec[e].base + 64, 1) = rec[e].args["bytes_in_flight"]

=============================================================================
